---- MODULE Spec2Model ----
(***************************************************************************)
(* Model of maestro-lightning: the task DAG, the file-backed job status    *)
(* records, the "run task" (run_init) and "run next" (run_next) handlers,  *)
(* the incremental job materialization (Task._update_db), the status       *)
(* record of one job with its timestamps and file lock (models/job.py),    *)
(* the job worker (run_job) and the construction of a task                 *)
(* (Task.__init__).                                                        *)
(*                                                                         *)
(* Status values are modelled by their serialized strings: the enum        *)
(* member State.X and the string it is stored as are one value.  Names     *)
(* the sources use without defining them (Task.status, Task.jobs, the      *)
(* input dataset, the scheduler) follow the design document.               *)
(***************************************************************************)
EXTENDS Integers, Sequences, FiniteSets, TLC

VARIABLES
    next,        \* task.next of every task: a list of task names
    inputs,      \* per task, the file paths its input dataset yields
    ledger,      \* per task, the "files" list of db/task.json
    jobs,        \* per task, its job files in creation order (task.jobs)
    taskStatus,  \* the persisted status of every task (task.status)
    initQ,       \* per task, its queued "maestro run task" scripts
    closeQ,      \* tasks whose "maestro run next" script is queued
    arrays,      \* per task, the job arrays handed to the scheduler
    fin,         \* what the last run_next did
    ini,         \* what the last run_init did
    mat,         \* what the last materialization pass did
    passes,      \* per task, the input files its last pass saw
    now,         \* the wall clock, in seconds
    rec,         \* the status file of one job, with its timestamps
    lock,        \* the holder of that file's lock, or "free"
    cl,          \* the processes that call ping, reset or the status setter
    wk,          \* the job worker: its position in run_job and its process
    obs,         \* what the last operation on the status file did
    ctx,         \* the context: the registered tasks and the datasets
    made,        \* what the last construction of a task did
    locks,       \* per status file of a task, the holder of its lock
    pr           \* the processes that go through status files of a task

taskvars == <<next, inputs, ledger, jobs, taskStatus, initQ, closeQ, arrays,
              fin, ini, mat, passes>>

jobvars == <<now, rec, lock, cl, wk, obs>>

regvars == <<ctx, made>>

scanvars == <<locks, pr>>

vars == <<next, inputs, ledger, jobs, taskStatus, initQ, closeQ, arrays,
          fin, ini, mat, passes, now, rec, lock, cl, wk, obs, ctx, made,
          locks, pr>>

(***************************************************************************)
(* Bounds                                                                  *)
(***************************************************************************)
MaxJobs == 10

MaxSeqLen == 3

MaxFiles == 2

MaxQueued == 2

MaxSubmits == 2

MaxTime == 320

MaxOutputs == 2

MaxPieces == 2

(***************************************************************************)
(* Tasks and graphs.  A task is registered after the tasks that produce    *)
(* its inputs, so every edge leads to a task registered later.             *)
(***************************************************************************)
TaskOrder == <<"A", "B", "C", "D">>

Tasks == {TaskOrder[i] : i \in 1..Len(TaskOrder)}

Pos(t) == CHOOSE i \in 1..Len(TaskOrder) : TaskOrder[i] = t

Edges == {e \in Tasks \X Tasks : Pos(e[1]) < Pos(e[2])}

RECURSIVE SeqOfSet(_)
SeqOfSet(S) ==
    IF S = {} THEN <<>>
    ELSE LET t == CHOOSE x \in S : \A y \in S : Pos(x) <= Pos(y)
         IN  <<t>> \o SeqOfSet(S \ {t})

NextOf(E) == [t \in Tasks |-> SeqOfSet({u \in Tasks : <<t, u>> \in E})]

Graphs == {NextOf(E) : E \in SUBSET Edges}

Diamond == NextOf({<<"A", "B">>, <<"A", "C">>, <<"B", "D">>, <<"C", "D">>})

Range(s) == {s[i] : i \in 1..Len(s)}

Count(s, x) == Cardinality({i \in 1..Len(s) : s[i] = x})

prev(t) == {u \in Tasks : t \in Range(next[u])}

Roots == {t \in Tasks : prev(t) = {}}

RECURSIVE Reach(_)
Reach(S) ==
    LET N == S \cup UNION {Range(next[u]) : u \in S}
    IN  IF N = S THEN S ELSE Reach(N)

Downstream(t) == Reach(Range(next[t]))

(***************************************************************************)
(* State (models/status.py) and the job status record (models/job.py)      *)
(***************************************************************************)
State_withCanceled ==
    [ASSIGNED |-> "assigned", UNKNOWN |-> "unknown", PENDING |-> "pending",
     RUNNING |-> "running", COMPLETED |-> "completed", FAILED |-> "failed",
     FINALIZED |-> "finalized", CANCELED |-> "canceled"]

State ==
    [ASSIGNED |-> "assigned", UNKNOWN |-> "unknown", PENDING |-> "pending",
     RUNNING |-> "running", COMPLETED |-> "completed", FAILED |-> "failed",
     FINALIZED |-> "finalized"]

StateValues == {State[m] : m \in DOMAIN State}

\* the status values a persisted record may hold
StatusValues == StateValues \cup {"created", "canceled"}

\* JSON values a job_id can be: a number, or a list (of file names)
JInt(k) == <<"int", k>>

JList(l) == <<"list", l>>

\* a file path is a list of components; filepath.split('/')[-1]
Path(k) == <<"in", k>>

basename(p) == p[Len(p)]

\* a job file pair: the definition (job_id, input_file) and the status file
NoFile == [exists |-> FALSE, status |-> "none"]

StatusFile(s) == [exists |-> TRUE, status |-> s]

\* (written under jobs/inputs and jobs/status of the task directory)
JobFiles(id, file, sf) ==
    [job_id |-> id, input_file |-> file, exists |-> sf.exists, status |-> sf.status,
     dir |-> "jobs"]

Job_status_missingIsCompleted(f) == IF f.exists THEN f.status ELSE State.COMPLETED

\* Job.status (getter)
Job_status(f) == IF f.exists THEN f.status ELSE State.UNKNOWN

\* Task.status: the task's own status record, read and written whole
Task_status(t) == taskStatus[t]

Task_setStatus(st, t, v) == [st EXCEPT ![t] = v]

(***************************************************************************)
(* run_next: the decision rule                                             *)
(***************************************************************************)
job_status(t) == [i \in 1..Len(jobs[t]) |-> Job_status(jobs[t][i])]

AllCompleted_nonEmpty(js) ==
    Len(js) > 0 /\ \A i \in 1..Len(js) : js[i] = State.COMPLETED

\* all( [status==State.COMPLETED for status in job_status] )
AllCompleted(js) == \A i \in 1..Len(js) : js[i] = State.COMPLETED

\* sum([status == State.FAILED for status in job_status])
NumFailed(js) == Cardinality({i \in 1..Len(js) : js[i] = State.FAILED})

OverThreshold_atLeast(f, n) == f * 10 >= n

\* f / n > 0.1 for n > 0: the quotient exceeds one tenth iff 10 f > n (the
\* double nearest to f/n equals the double 0.1 exactly when 10 f = n, for
\* every job count far below 2^52).
OverThreshold(f, n) == f * 10 > n

Decide(js) ==
    IF AllCompleted(js) THEN [status |-> State.COMPLETED, raised |-> "none"]
    ELSE IF Len(js) = 0 THEN [status |-> "unset", raised |-> "ZeroDivisionError"]
    ELSE IF OverThreshold(NumFailed(js), Len(js))
         THEN [status |-> State.FAILED, raised |-> "none"]
         ELSE [status |-> State.FINALIZED, raised |-> "none"]

(***************************************************************************)
(* run_next.cancel_task: the writes of "canceled", in the order made       *)
(***************************************************************************)
RECURSIVE CancelWrites(_)
CancelWrites(ts) ==
    IF ts = <<>> THEN <<>>
    ELSE <<Head(ts)>> \o CancelWrites(next[Head(ts)]) \o CancelWrites(Tail(ts))

\* State.CANCELED is evaluated before the first write: with no such member
\* the first downstream task raises AttributeError and nothing is written.
cancel_task(t) ==
    IF next[t] = <<>> THEN [writes |-> <<>>, raised |-> "none"]
    ELSE IF "CANCELED" \in DOMAIN State
         THEN [writes |-> CancelWrites(next[t]), raised |-> "none"]
         ELSE [writes |-> <<>>, raised |-> "AttributeError"]

StartsNext_onSuccess(st) == st \in {State.COMPLETED, State.FINALIZED}

\* if task.status not in [State.COMPLETED, State.FINALIZED]
StartsNext(st) == st \notin {State.COMPLETED, State.FINALIZED}

NoRun == [task |-> "none", status |-> "unset", raised |-> "none",
          writes |-> <<>>, inits |-> <<>>]

\* the handler without the "else" of line 76: finalized is written after
\* the failed branch too
Finalization_fallsThrough(t) ==
    LET d == Decide(job_status(t))
        c == IF d.status = State.FAILED THEN cancel_task(t)
             ELSE [writes |-> <<>>, raised |-> "none"]
        raised == IF d.raised # "none" THEN d.raised ELSE c.raised
        own == IF d.raised # "none" THEN taskStatus
               ELSE IF d.status = State.FAILED /\ c.raised = "none"
                    THEN Task_setStatus(taskStatus, t, State.FINALIZED)
                    ELSE Task_setStatus(taskStatus, t, d.status)
        st == [u \in Tasks |->
                 IF u \in Range(c.writes) THEN State["CANCELED"] ELSE own[u]]
        inits == IF raised = "none" /\ StartsNext(st[t]) THEN next[t] ELSE <<>>
    IN  [task |-> t, status |-> d.status, raised |-> raised,
         writes |-> c.writes, inits |-> inits, taskStatus |-> st]

\* The whole handler: what it writes, what it submits, how it ends.
Finalization(t) ==
    LET d == Decide(job_status(t))
        c == IF d.status = State.FAILED THEN cancel_task(t)
             ELSE [writes |-> <<>>, raised |-> "none"]
        raised == IF d.raised # "none" THEN d.raised ELSE c.raised
        own == IF d.raised = "none" THEN Task_setStatus(taskStatus, t, d.status)
               ELSE taskStatus
        st == [u \in Tasks |->
                 IF u \in Range(c.writes) THEN State["CANCELED"] ELSE own[u]]
        inits == IF raised = "none" /\ StartsNext(st[t]) THEN next[t] ELSE <<>>
    IN  [task |-> t, status |-> d.status, raised |-> raised,
         writes |-> c.writes, inits |-> inits, taskStatus |-> st]

Finalize(t) ==
    LET r == Finalization(t)
    IN  /\ taskStatus' = r.taskStatus
        /\ initQ' = [u \in Tasks |-> initQ[u] + Count(r.inits, u)]
        /\ \A u \in Tasks : initQ'[u] <= MaxQueued
        /\ fin' = [task |-> t, status |-> r.status, raised |-> r.raised,
                   writes |-> r.writes, inits |-> r.inits]
        /\ UNCHANGED <<next, inputs, ledger, jobs, arrays, ini, mat, passes>>
        /\ UNCHANGED <<jobvars, regvars, scanvars>>

\* "maestro run next --index t", invoked on any task
run_next(t) == Finalize(t) /\ UNCHANGED closeQ

(***************************************************************************)
(* Task._update_db: the materialization pass                               *)
(***************************************************************************)
\* Job.dump: the definition file and a status file holding "assigned", both
\* at the path the job_id names (an existing pair is overwritten)
Save(js, id, file) ==
    LET new == JobFiles(id, file, StatusFile(State.ASSIGNED))
    IN  IF \E i \in 1..Len(js) : js[i].job_id = id
        THEN [i \in 1..Len(js) |-> IF js[i].job_id = id THEN new ELSE js[i]]
        ELSE Append(js, new)

\* job_id = task.get('files',0): the key is there, so this is the list
FirstJobId(files) == JList(files)

\* job_id += 1: a number is incremented, a list raises TypeError
Increment(id) ==
    IF id[1] = "int" THEN [raised |-> "none", id |-> JInt(id[2] + 1)]
    ELSE [raised |-> "TypeError", id |-> id]

\* the loop over the input files; "files" is read and never appended to
RECURSIVE UpdateLoop(_, _, _, _, _)
UpdateLoop(fs, id, files, js, saved) ==
    IF fs = <<>> THEN [jobs |-> js, saved |-> saved, raised |-> "none"]
    ELSE IF basename(Head(fs)) \notin Range(files)
         THEN LET js2 == Save(js, id, Head(fs))
                  sv2 == Append(saved, id)
                  inc == Increment(id)
              IN  IF inc.raised # "none"
                  THEN [jobs |-> js2, saved |-> sv2, raised |-> inc.raised]
                  ELSE UpdateLoop(Tail(fs), inc.id, files, js2, sv2)
         ELSE UpdateLoop(Tail(fs), id, files, js, saved)

\* the pass: the jobs it leaves, the ids it saved, and the "files" list of
\* db/task.json afterwards (written back as read, or not written at all)
UpdateDb(t) ==
    LET r == UpdateLoop(inputs[t], FirstJobId(ledger[t]), ledger[t], jobs[t], <<>>)
    IN  [jobs |-> r.jobs, saved |-> r.saved, raised |-> r.raised, files |-> ledger[t]]

\* the input files that appeared since the pass that saw "seen"
NewFiles(fs, seen) == SelectSeq(fs, LAMBDA f : f \notin Range(seen))

Materialize(t, r) ==
    /\ jobs' = [jobs EXCEPT ![t] = r.jobs]
    /\ ledger' = [ledger EXCEPT ![t] = r.files]
    /\ mat' = [task |-> t, saved |-> r.saved, raised |-> r.raised,
               repeat |-> passes[t].ran /\ passes[t].inputs = inputs[t],
               ledgerBefore |-> ledger[t],
               newFiles |-> NewFiles(inputs[t], passes[t].inputs),
               jobsBefore |-> jobs[t], jobsAfter |-> r.jobs]
    /\ passes' = [passes EXCEPT ![t] = [ran |-> TRUE, inputs |-> inputs[t]]]

\* one materialization pass of task t
update_db(t) ==
    /\ Materialize(t, UpdateDb(t))
    /\ UNCHANGED <<next, inputs, taskStatus, initQ, closeQ, arrays, fin, ini>>
    /\ UNCHANGED <<jobvars, regvars, scanvars>>

\* Job.status (setter): a fresh record holding the new state replaces the
\* status file of job i of task t
Job_setStatus(t, i, s) ==
    /\ jobs' = [jobs EXCEPT ![t][i] = JobFiles(@.job_id, @.input_file, StatusFile(s))]
    /\ UNCHANGED <<next, inputs, ledger, taskStatus, initQ, closeQ, arrays,
                   fin, ini, mat, passes>>
    /\ UNCHANGED <<jobvars, regvars, scanvars>>

\* the states a worker writes (job_runner.py: pending, running, failed,
\* completed)
WorkerStates == {State.PENDING, State.RUNNING, State.FAILED, State.COMPLETED}

\* a new file lands in the input dataset of task t
AddFile(t) ==
    /\ Len(inputs[t]) < MaxFiles
    /\ inputs' = [inputs EXCEPT ![t] = Append(@, Path(Len(@) + 1))]
    /\ UNCHANGED <<next, ledger, jobs, taskStatus, initQ, closeQ, arrays,
                   fin, ini, mat, passes>>
    /\ UNCHANGED <<jobvars, regvars, scanvars>>

(***************************************************************************)
(* Task.submit and run_init                                                *)
(***************************************************************************)
RECURSIVE IdsWithStatus(_, _)
IdsWithStatus(js, st) ==
    IF js = <<>> THEN <<>>
    ELSE (IF Head(js).exists /\ Head(js).status = st THEN <<Head(js).job_id>> ELSE <<>>)
         \o IdsWithStatus(Tail(js), st)

\* expand_folders(self.path + "/db/job_*.json"): the job files that lie in
\* the db directory of the task
DbJobFiles(js) == SelectSeq(js, LAMBDA j : j.dir = "db")

\* Task.get_array_of_jobs_with_status()
get_array_of_jobs_with_status(js) == IdsWithStatus(DbJobFiles(js), State.ASSIGNED)

\* if task.status==State.COMPLETED
Skips(st) == st = State.COMPLETED

\* The whole handler.  A pass that raises ends it: the task stays running,
\* no array and no closing script are submitted.
Initialize(t) ==
    LET skip == Skips(Task_status(t))
        r == UpdateDb(t)
        crashed == ~skip /\ r.raised # "none"
    IN  /\ taskStatus' = IF skip THEN taskStatus
                         ELSE Task_setStatus(taskStatus, t, State.RUNNING)
        /\ IF skip THEN UNCHANGED <<jobs, ledger, mat, passes>>
           ELSE Materialize(t, r)
        /\ arrays' = IF skip \/ crashed THEN arrays
                     ELSE [arrays EXCEPT ![t] =
                             Append(@, get_array_of_jobs_with_status(r.jobs))]
        /\ closeQ' = IF crashed THEN closeQ ELSE closeQ \cup {t}
        /\ ini' = [task |-> t, before |-> taskStatus[t], skipped |-> skip,
                   raised |-> IF crashed THEN r.raised ELSE "none",
                   submitted |-> ~skip /\ ~crashed]
        /\ UNCHANGED <<next, inputs, fin>>
        /\ UNCHANGED <<jobvars, regvars, scanvars>>

\* "maestro run task -x t", invoked on any task
run_init(t) ==
    /\ Len(arrays[t]) < MaxSubmits
    /\ Initialize(t)
    /\ UNCHANGED initQ

\* the scheduler runs a queued initialization script
init_task(t) ==
    /\ initQ[t] > 0
    /\ Initialize(t)
    /\ initQ' = [initQ EXCEPT ![t] = @ - 1]

\* afterok: the closing script waits for the jobs of the submitted array
ArrayDone(t) ==
    arrays[t] = <<>> \/
    \A i \in 1..Len(jobs[t]) :
        jobs[t][i].job_id \in Range(arrays[t][Len(arrays[t])]) =>
            jobs[t][i].status \in {State.COMPLETED, State.FAILED}

(***************************************************************************)
(* The status record of a job: Status (models/status.py, models/job.py)    *)
(* and the file operations of Job                                          *)
(***************************************************************************)
\* sleep(10) in the heartbeat loop, in seconds
Heartbeat == 10

\* is_alive(minutes=5)
AliveMinutes == 5

Timeout == AliveMinutes * 60

\* Status(status, start_time, last_time); "time" is the attribute that
\* ping() assigns, unset (-1) on a new object
Status(s, st, lt) == [status |-> s, start_time |-> st, last_time |-> lt, time |-> -1]

\* the status file: missing, truncated by open(.., 'w'), or a whole record
Missing == [exists |-> FALSE, whole |-> FALSE, status |-> "none",
            last_time |-> 0, start_time |-> 0]

Truncated == [exists |-> TRUE, whole |-> FALSE, status |-> "none",
              last_time |-> 0, start_time |-> 0]

\* Status.to_dict, written by json.dump: status, last_time, start_time
Status_to_dict(o) ==
    [exists |-> TRUE, whole |-> TRUE, status |-> o.status,
     last_time |-> o.last_time, start_time |-> o.start_time]

\* Status.from_dict
Status_from_dict(d) == Status(d.status, d.start_time, d.last_time)

\* Status.ping: self.time = datetime.now()
Status_ping(o, t) == [o EXCEPT !.time = t]

\* Status.is_alive
Status_is_alive(o, t) == t - o.last_time < Timeout

\* Status.reset
Status_reset(o, t) == [o EXCEPT !.start_time = t, !.last_time = t]

\* Job.dump (the status file) and Job.status (setter): a new Status whose
\* timestamps are the defaults, evaluated when the process "born" at that
\* time imported the module
Job_write(s, born) == Status_to_dict(Status(s, born, born))

\* Job.ping, Job.reset, Job.is_alive: nothing is done to a missing file
Job_ping(f, t) ==
    IF f.exists THEN Status_to_dict(Status_ping(Status_from_dict(f), t)) ELSE f

Job_reset(f, t) ==
    IF f.exists THEN Status_to_dict(Status_reset(Status_from_dict(f), t)) ELSE f

Job_is_alive(f, t) ==
    IF f.exists THEN Status_is_alive(Status_from_dict(f), t) ELSE FALSE

Clients == {"p1", "p2"}

NoCall == [pc |-> "idle", op |-> "none", arg |-> "none", obj |-> Status("none", 0, 0)]

\* the worker: where it is in run_job, when it was started, its process
\* and the status the process ended with, the number of expected outputs,
\* the outputs found in the work area, the output the upload loop is at,
\* the phase an exception was raised in, and the time of its latest ping
NotStarted == [pc |-> "off", born |-> 0, proc |-> "none", result |-> "none",
               outs |-> 0, present |-> {}, k |-> 0, raised |-> "none",
               beat |-> -1]

NoOp == [op |-> "none", at |-> 0, before |-> Missing, after |-> Missing,
         result |-> FALSE, pinged |-> -1]

\* the status files of the jobs of one task, in the order of task.jobs
MaxRecords == 3

Records == 1..MaxRecords

\* a process outside every with FileLock block: "todo" is the list of the
\* status files it has still to go through, "done" the number of those it
\* went through in this call
Outside == [pc |-> "idle", todo |-> <<>>, done |-> 0]

\* no lock of a status file is held
Unlocked ==
    /\ locks = [f \in Records |-> "free"]
    /\ pr = [p \in Clients |-> Outside]

\* no job process is running
Idle ==
    /\ Unlocked
    /\ now = 0
    /\ rec = Missing
    /\ lock = "free"
    /\ cl = [p \in Clients |-> NoCall]
    /\ wk = NotStarted
    /\ obs = NoOp

(***************************************************************************)
(* Task.__init__: command validation and registration in the context       *)
(***************************************************************************)
\* a command and a key are strings: sequences of characters.  The commands
\* tried are made of a few pieces: the two placeholders and single characters.
Pieces == {<<"%", "I", "N">>, <<"%", "N">>, <<"%">>, <<"I">>, <<"N">>}

RECURSIVE Join(_)
Join(ps) == IF ps = <<>> THEN <<>> ELSE Head(ps) \o Join(Tail(ps))

Commands == {Join(ps) : ps \in UNION {[1..n -> Pieces] : n \in 0..MaxPieces}}

Keys == {<<"N">>}

\* f"%{key}"
Placeholder(key) == <<"%">> \o key

\* pat in cmd, for strings
Contains(cmd, pat) ==
    \E i \in 0..(Len(cmd) - Len(pat)) : SubSeq(cmd, i + 1, i + Len(pat)) = pat

Validate_outputsOnly(command, outputs, secondary_data) ==
    IF ~Contains(command, Placeholder(<<"I", "N">>)) THEN "ValueError"
    ELSE IF \E key \in outputs : ~Contains(command, Placeholder(key)) THEN "ValueError"
    ELSE "none"

\* the three placeholder checks that open Task.__init__
Validate(command, outputs, secondary_data) ==
    IF ~Contains(command, Placeholder(<<"I", "N">>)) THEN "ValueError"
    ELSE IF \E key \in outputs : ~Contains(command, Placeholder(key)) THEN "ValueError"
    ELSE IF \E key \in secondary_data : ~Contains(command, Placeholder(key))
         THEN "ValueError"
    ELSE "none"

\* the context: the registered task names in order of registration, the
\* task_id each was given, and the known datasets, each named by the task
\* it comes from ("ext" for a dataset that no task produces)
NoContext == [tasks |-> <<>>, ids |-> <<>>, datasets |-> {"ext"}]

NewTaskId_oneBased(tasks) == Len(tasks) + 1

\* self.task_id = len(ctx.tasks)
NewTaskId(tasks) == Len(tasks)

\* the keys, IN among them, whose placeholder the command does not hold
Lacking(command, keys) == {key \in keys : ~Contains(command, Placeholder(key))}

NoneMade == [name |-> "none", lacking |-> {}, secondary_data |-> {},
             raised |-> "none", tasks |-> <<>>, ids |-> <<>>, datasets |-> {},
             next |-> <<>>]

\* x.next += [self] for the task the dataset comes from
AddEdge_reversed(nx, from, name) ==
    IF from = "ext" THEN nx ELSE [nx EXCEPT ![name] = Append(@, from)]

AddEdge(nx, from, name) ==
    IF from = "ext" THEN nx ELSE [nx EXCEPT ![from] = Append(@, name)]

\* the edges of a new task: one per secondary key, then the input's
Wire(nx, name, input, secondary_data, sdata) ==
    LET n1 == IF secondary_data = {} THEN nx ELSE AddEdge(nx, sdata, name)
    IN  AddEdge(n1, input, name)

\* Task(name, image, command, input_data, outputs, partition,
\* secondary_data): input_data and the secondary datasets (all sdata) are
\* known datasets
Task_init(name, command, input, outputs, secondary_data, sdata) ==
    LET v == Validate(command, outputs, secondary_data)
        raised == IF v # "none" THEN v
                  ELSE IF name \in Range(ctx.tasks) THEN "Exception"
                  ELSE "none"
    IN  /\ {input, sdata} \subseteq ctx.datasets
        /\ secondary_data = {} => sdata = "ext"
        /\ made' = [name |-> name,
                    lacking |-> Lacking(command, {<<"I", "N">>} \cup outputs
                                                   \cup secondary_data),
                    secondary_data |-> secondary_data, raised |-> raised,
                    tasks |-> ctx.tasks, ids |-> ctx.ids,
                    datasets |-> ctx.datasets, next |-> next]
        /\ IF raised # "none" THEN UNCHANGED <<ctx, next>>
           ELSE /\ ctx' = [tasks |-> Append(ctx.tasks, name),
                           ids |-> Append(ctx.ids, NewTaskId(ctx.tasks)),
                           datasets |-> IF outputs = {} THEN ctx.datasets
                                        ELSE ctx.datasets \cup {name}]
                /\ next' = Wire(next, name, input, secondary_data, sdata)
        /\ UNCHANGED <<inputs, ledger, jobs, taskStatus, initQ, closeQ, arrays,
                       fin, ini, mat, passes>>
        /\ UNCHANGED <<jobvars, scanvars>>

\* the registry of the pipeline specifications holds every task
Registered ==
    /\ ctx = [tasks |-> TaskOrder, ids |-> [i \in 1..Len(TaskOrder) |-> i - 1],
              datasets |-> Tasks \cup {"ext"}]
    /\ made = NoneMade

(***************************************************************************)
(* Inputs of the finalization specifications                               *)
(***************************************************************************)
RECURSIVE Rep(_, _)
Rep(x, n) == IF n = 0 THEN <<>> ELSE <<x>> \o Rep(x, n - 1)

\* the job files of a task whose jobs 0..n-1 have the given status files
JobsOf(sfs) == [i \in 1..Len(sfs) |-> JobFiles(JInt(i - 1), Path(i), sfs[i])]

FileValues == {StatusFile(s) : s \in StateValues} \cup {NoFile}

\* every short job list, in every order
ShortLists == UNION {[1..n -> FileValues] : n \in 0..MaxSeqLen}

\* one job list for every mix of completed, failed, running and lost records
LongLists ==
    {Rep(StatusFile(State.COMPLETED), c[1]) \o Rep(StatusFile(State.FAILED), c[2])
        \o Rep(StatusFile(State.RUNNING), c[3]) \o Rep(NoFile, c[4]) :
     c \in {x \in (0..MaxJobs) \X (0..MaxJobs) \X (0..2) \X (0..1) :
               x[1] + x[2] + x[3] + x[4] <= MaxJobs}}

JobLists == {JobsOf(l) : l \in ShortLists \cup LongLists}

SmallLists ==
    {JobsOf(l) : l \in {<<>>, <<StatusFile(State.COMPLETED)>>, <<StatusFile(State.FAILED)>>}}

NoInit == [task |-> "none", before |-> "none", skipped |-> FALSE,
           raised |-> "none", submitted |-> FALSE]

NoPass == [task |-> "none", saved |-> <<>>, raised |-> "none",
           repeat |-> FALSE, ledgerBefore |-> <<>>, newFiles |-> <<>>,
           jobsBefore |-> <<>>, jobsAfter |-> <<>>]

Never == [ran |-> FALSE, inputs |-> <<>>]

Quiet ==
    /\ initQ = [t \in Tasks |-> 0]
    /\ closeQ = {}
    /\ arrays = [t \in Tasks |-> <<>>]
    /\ fin = NoRun
    /\ ini = NoInit
    /\ mat = NoPass
    /\ passes = [t \in Tasks |-> Never]
    /\ Registered

\* the ledger and input files that go with a task's jobs
Settled ==
    /\ inputs = [t \in Tasks |-> [i \in 1..Len(jobs[t]) |-> jobs[t][i].input_file]]
    /\ ledger = [t \in Tasks |-> [i \in 1..Len(jobs[t]) |-> basename(jobs[t][i].input_file)]]

\* any graph, a few jobs per task
InitFin ==
    /\ next \in Graphs
    /\ jobs \in [Tasks -> SmallLists]
    /\ taskStatus = [t \in Tasks |-> State.RUNNING]
    /\ Settled
    /\ Quiet
    /\ Idle

NextFin == \E t \in Tasks : run_next(t)

SpecFin == InitFin /\ [][NextFin]_vars

\* one task with any job list, with and without a downstream task
InitAgg ==
    /\ next \in {NextOf({}), NextOf({<<"A", "B">>})}
    /\ \E l \in JobLists : jobs = [t \in Tasks |-> IF t = "A" THEN l ELSE <<>>]
    /\ taskStatus = [t \in Tasks |-> State.RUNNING]
    /\ Settled
    /\ Quiet
    /\ Idle

NextAgg == \E t \in {"A", "B"} : run_next(t)

SpecAgg == InitAgg /\ [][NextAgg]_vars

(***************************************************************************)
(* Properties of finalization                                              *)
(***************************************************************************)
Finalized == fin.task # "none"

FilesCompleted(t) ==
    \A i \in 1..Len(jobs[t]) : jobs[t][i].exists /\ jobs[t][i].status = "completed"

FilesFailed(t) ==
    Cardinality({i \in 1..Len(jobs[t]) : jobs[t][i].exists /\ jobs[t][i].status = "failed"})

C3_DownstreamCanceled ==
    (Finalized /\ fin.status = "failed") =>
        \A u \in Downstream(fin.task) : taskStatus[u] = "canceled"

\* C4: cascading cancellation writes canceled to every downstream task
\* exactly once.
C4_EachWrittenOnce ==
    (Finalized /\ fin.status = "failed") =>
        \A u \in Downstream(fin.task) : Count(fin.writes, u) = 1

\* C5: a finalization whose resulting status is failed submits no
\* initialization script of a downstream task.
C5_FailedStartsNothing ==
    (Finalized /\ taskStatus[fin.task] = "failed") => fin.inits = <<>>

C5_FailedWithDownstream ==
    /\ Finalized
    /\ taskStatus[fin.task] = "failed"
    /\ fin.status = "failed"
    /\ next[fin.task] # <<>>
    /\ fin.inits = <<>>
    /\ \A u \in Tasks : initQ[u] = 0

\* C6: a finalization whose resulting status is completed or finalized
\* submits the initialization script of every task in next.
C6_SuccessStartsNext ==
    (Finalized /\ taskStatus[fin.task] \in {"completed", "finalized"}) =>
        \A u \in Range(next[fin.task]) : Count(fin.inits, u) >= 1

\* C9: a task with a job whose status is unknown, or whose status record is
\* missing, is never set to completed; such a job does not count as failed.
C9_UnknownNotCompleted ==
    (Finalized /\ \E i \in 1..Len(jobs[fin.task]) :
                     ~jobs[fin.task][i].exists \/ jobs[fin.task][i].status = "unknown") =>
        /\ taskStatus[fin.task] # "completed"
        /\ FilesFailed(fin.task) = 0 => taskStatus[fin.task] = "finalized"

C9_LostRecord ==
    /\ Finalized
    /\ fin.task = "A"
    /\ Len(jobs["A"]) >= 2
    /\ \E i \in 1..Len(jobs["A"]) : ~jobs["A"][i].exists
    /\ \A i \in 1..Len(jobs["A"]) :
          jobs["A"][i].exists => jobs["A"][i].status = "completed"
    /\ taskStatus["A"] = "finalized"

(***************************************************************************)
(* The pipeline: scripts run by the scheduler, from a fresh working area   *)
(***************************************************************************)
\* the scheduler runs a queued closing script
close_task(t) ==
    /\ t \in closeQ
    /\ ArrayDone(t)
    /\ Finalize(t)
    /\ closeQ' = closeQ \ {t}

HasFiles == {<<>>, <<Path(1)>>}

\* Task._create_db: status "assigned", no files; no job yet
Fresh ==
    /\ ledger = [t \in Tasks |-> <<>>]
    /\ jobs = [t \in Tasks |-> <<>>]
    /\ closeQ = {}
    /\ arrays = [t \in Tasks |-> <<>>]
    /\ fin = NoRun
    /\ ini = NoInit
    /\ mat = NoPass
    /\ passes = [t \in Tasks |-> Never]
    /\ Registered

\* the tasks without upstream task are submitted first
InitRun ==
    /\ next \in Graphs
    /\ inputs \in [Tasks -> HasFiles]
    /\ taskStatus = [t \in Tasks |-> "assigned"]
    /\ initQ = [t \in Tasks |-> IF t \in Roots THEN 1 ELSE 0]
    /\ Fresh
    /\ Idle

NextRun == \E t \in Tasks : init_task(t) \/ close_task(t)

SpecRun == InitRun /\ [][NextRun]_vars

\* "maestro run task" on a task of a working area left by an earlier run
InitInit ==
    /\ next \in {NextOf({}), NextOf({<<"A", "B">>})}
    /\ inputs \in [Tasks -> HasFiles]
    /\ taskStatus \in [Tasks -> {"assigned", "canceled", State.COMPLETED}]
    /\ initQ = [t \in Tasks |-> 0]
    /\ Fresh
    /\ Idle

NextInit == \E t \in {"A", "B"} : run_init(t)

SpecInit == InitInit /\ [][NextInit]_vars

\* "maestro run task" on a task whose jobs were materialized and have run
InitSub ==
    /\ next = NextOf({})
    /\ \E l \in ShortLists : jobs = [t \in Tasks |-> IF t = "A" THEN JobsOf(l) ELSE <<>>]
    /\ taskStatus = [t \in Tasks |-> "assigned"]
    /\ Settled
    /\ Quiet
    /\ Idle

NextSub == run_init("A")

SpecSub == InitSub /\ [][NextSub]_vars

\* materialization passes of two tasks while input files land
InitMat ==
    /\ next = NextOf({})
    /\ inputs = [t \in Tasks |-> <<>>]
    /\ taskStatus = [t \in Tasks |-> "assigned"]
    /\ initQ = [t \in Tasks |-> 0]
    /\ Fresh
    /\ Idle

NextMat ==
    \E t \in {"A", "B"} :
        \/ AddFile(t)
        \/ update_db(t)
        \/ \E i \in 1..Len(jobs[t]), s \in WorkerStates : Job_setStatus(t, i, s)

SpecMat == InitMat /\ [][NextMat]_vars

(***************************************************************************)
(* One status file, called by one process at a time                        *)
(***************************************************************************)
\* the steps of the clock: a heartbeat period, and the rest of the timeout
Durations == {Heartbeat, Timeout - Heartbeat}

Tick(d) ==
    /\ now + d <= MaxTime
    /\ now' = now + d
    /\ UNCHANGED <<rec, lock, cl, wk, obs>>
    /\ UNCHANGED <<taskvars, regvars, scanvars>>

\* the call, the file before and after it, what it returned, and the time
\* of the latest ping of the record the file holds
Observe(op, after, result) ==
    obs' = [op |-> op, at |-> now, before |-> rec, after |-> after,
            result |-> result,
            pinged |-> IF op = "ping" /\ rec.exists THEN now
                       ELSE IF op \in {"write", "reset"} THEN -1
                       ELSE obs.pinged]

\* Job.dump writes assigned, the status setter any state
rec_write(s, born) ==
    /\ rec' = Job_write(s, born)
    /\ Observe("write", rec', FALSE)
    /\ UNCHANGED <<now, lock, cl, wk>>
    /\ UNCHANGED <<taskvars, regvars, scanvars>>

rec_ping ==
    /\ rec' = Job_ping(rec, now)
    /\ Observe("ping", rec', FALSE)
    /\ UNCHANGED <<now, lock, cl, wk>>
    /\ UNCHANGED <<taskvars, regvars, scanvars>>

rec_reset ==
    /\ rec' = Job_reset(rec, now)
    /\ Observe("reset", rec', FALSE)
    /\ UNCHANGED <<now, lock, cl, wk>>
    /\ UNCHANGED <<taskvars, regvars, scanvars>>

rec_is_alive ==
    /\ Observe("is_alive", rec, Job_is_alive(rec, now))
    /\ UNCHANGED <<now, rec, lock, cl, wk>>
    /\ UNCHANGED <<taskvars, regvars, scanvars>>

\* a fresh working area of one task: no job process has run
NoTask ==
    /\ next = NextOf({})
    /\ inputs = [t \in Tasks |-> <<>>]
    /\ taskStatus = [t \in Tasks |-> "assigned"]
    /\ initQ = [t \in Tasks |-> 0]
    /\ Fresh

InitRec == NoTask /\ Idle

NextRec ==
    \/ \E d \in Durations : Tick(d)
    \/ \E s \in {State.ASSIGNED, State.RUNNING, State.COMPLETED}, born \in {0, now} :
          rec_write(s, born)
    \/ rec_ping
    \/ rec_reset
    \/ rec_is_alive

SpecRec == InitRec /\ [][NextRec]_vars

(***************************************************************************)
(* One status file, called by concurrent processes under its file lock     *)
(***************************************************************************)
FileLock_enter_noExclusion(l, p) == [ok |-> TRUE, lock |-> p]

\* with FileLock(path + ".lock"): entered when no process holds the lock
FileLock_enter(l, p) == [ok |-> l = "free", lock |-> p]

FileLock_exit_keeps(l, p) == l

\* leaving the with block releases the lock
FileLock_exit(l, p) == IF l = p THEN "free" ELSE l

\* a process calls job.ping(), job.reset() or job.status = s; ping and
\* reset return at once when the file is missing.  "arg" keeps the state
\* the call was made with, or the state the file held when it was made.
call(p, op, s) ==
    /\ cl[p].pc = "idle"
    /\ cl' = [cl EXCEPT ![p] =
                IF op = "set"
                THEN [pc |-> "lock", op |-> op, arg |-> s, obj |-> Status(s, 0, 0)]
                ELSE IF rec.exists
                     THEN [pc |-> "lock", op |-> op, arg |-> rec.status, obj |-> @.obj]
                     ELSE @]
    /\ UNCHANGED <<now, rec, lock, wk, obs>>
    /\ UNCHANGED <<taskvars, regvars, scanvars>>

enter(p) ==
    /\ cl[p].pc = "lock"
    /\ FileLock_enter(lock, p).ok
    /\ lock' = FileLock_enter(lock, p).lock
    /\ cl' = [cl EXCEPT ![p].pc = IF cl[p].op = "set" THEN "open" ELSE "read"]
    /\ UNCHANGED <<now, rec, wk, obs>>
    /\ UNCHANGED <<taskvars, regvars, scanvars>>

\* json.load of the file, then status.ping() or status.reset(); a file
\* that is not a whole record cannot be parsed, and the call ends
read(p) ==
    /\ cl[p].pc = "read"
    /\ cl' = [cl EXCEPT ![p] =
                IF ~rec.whole THEN [@ EXCEPT !.pc = "release", !.op = "raised"]
                ELSE [@ EXCEPT !.pc = "open",
                               !.obj = IF cl[p].op = "ping"
                                       THEN Status_ping(Status_from_dict(rec), now)
                                       ELSE Status_reset(Status_from_dict(rec), now)]]
    /\ UNCHANGED <<now, rec, lock, wk, obs>>
    /\ UNCHANGED <<taskvars, regvars, scanvars>>

\* open(path, 'w')
open_w(p) ==
    /\ cl[p].pc = "open"
    /\ rec' = Truncated
    /\ cl' = [cl EXCEPT ![p].pc = "dump"]
    /\ UNCHANGED <<now, lock, wk, obs>>
    /\ UNCHANGED <<taskvars, regvars, scanvars>>

\* json.dump(status.to_dict(), f); obs keeps the latest write of a setter
dump(p) ==
    /\ cl[p].pc = "dump"
    /\ rec' = Status_to_dict(cl[p].obj)
    /\ cl' = [cl EXCEPT ![p].pc = "release"]
    /\ obs' = IF cl[p].op = "set"
              THEN [op |-> "write", at |-> now, before |-> rec, after |-> rec',
                    result |-> FALSE, pinged |-> -1]
              ELSE obs
    /\ UNCHANGED <<now, lock, wk>>
    /\ UNCHANGED <<taskvars, regvars, scanvars>>

exit(p) ==
    /\ cl[p].pc = "release"
    /\ lock' = FileLock_exit(lock, p)
    /\ cl' = [cl EXCEPT ![p] = [NoCall EXCEPT !.obj = cl[p].obj]]
    /\ UNCHANGED <<now, rec, wk, obs>>
    /\ UNCHANGED <<taskvars, regvars, scanvars>>

\* the job has been materialized: Job.dump wrote a record holding assigned
InitLock ==
    /\ NoTask
    /\ Unlocked
    /\ now = 0
    /\ rec = Job_write(State.ASSIGNED, 0)
    /\ lock = "free"
    /\ cl = [p \in Clients |-> NoCall]
    /\ wk = NotStarted
    /\ obs = NoOp

NextLock ==
    \/ Tick(Timeout - Heartbeat)
    \/ \E p \in Clients :
          \/ \E s \in {State.RUNNING, State.COMPLETED, State.FAILED} : call(p, "set", s)
          \/ call(p, "ping", "none")
          \/ call(p, "reset", "none")
          \/ enter(p)
          \/ read(p)
          \/ open_w(p)
          \/ dump(p)
          \/ exit(p)

SpecLock == InitLock /\ [][NextLock]_vars

\* job.save() of a materialization pass, Job.dump: the status file is
\* opened for writing and a record holding assigned is dumped into it; no
\* FileLock is taken
save(p) ==
    /\ cl[p].pc = "idle"
    /\ cl' = [cl EXCEPT ![p] = [pc |-> "open", op |-> "save", arg |-> State.ASSIGNED,
                                 obj |-> Status(State.ASSIGNED, 0, 0)]]
    /\ UNCHANGED <<now, rec, lock, wk, obs>>
    /\ UNCHANGED <<taskvars, regvars, scanvars>>

\* the job is not materialized yet
InitSave ==
    /\ NoTask
    /\ Idle

\* materialization passes next to the processes that use the status file
NextSave ==
    \/ NextLock
    \/ \E p \in Clients : save(p)

SpecSave == InitSave /\ [][NextSave]_vars

(***************************************************************************)
(* The status files of the jobs of one task and their locks.  A worker     *)
(* calls Job.status, Job.ping, Job.is_alive or Job.reset of its own job;   *)
(* run_next reads Job.status of every job of the task, one after another.  *)
(***************************************************************************)
\* the lists of status files a call goes through: one file, or several,
\* none of them twice
RecordLists ==
    {fs \in UNION {[1..n -> Records] : n \in 1..MaxRecords} :
        \A i, j \in DOMAIN fs : fs[i] = fs[j] => i = j}

\* the locks process p holds
Held(p) == {f \in Records : locks[f] = p}

\* a process starts a call on one status file, or a loop over several
job_call(p, fs) ==
    /\ pr[p].pc = "idle"
    /\ pr' = [pr EXCEPT ![p] = [pc |-> "lock", todo |-> fs, done |-> 0]]
    /\ UNCHANGED locks
    /\ UNCHANGED <<taskvars, jobvars, regvars>>

\* with FileLock(path + ".lock"): the block is entered
acquire(p) ==
    LET f == Head(pr[p].todo)
    IN  /\ pr[p].pc = "lock"
        /\ FileLock_enter(locks[f], p).ok
        /\ locks' = [locks EXCEPT ![f] = FileLock_enter(locks[f], p).lock]
        /\ pr' = [pr EXCEPT ![p].pc = "in"]
        /\ UNCHANGED <<taskvars, jobvars, regvars>>

\* the file is read, or written, or read and written, and the block is
\* left; a loop goes on to its next file
release(p) ==
    LET f == Head(pr[p].todo)
        rest == Tail(pr[p].todo)
    IN  /\ pr[p].pc = "in"
        /\ locks' = [locks EXCEPT ![f] = FileLock_exit(locks[f], p)]
        /\ pr' = [pr EXCEPT ![p] =
                     IF rest = <<>> THEN Outside
                     ELSE [pc |-> "lock", todo |-> rest, done |-> @.done + 1]]
        /\ UNCHANGED <<taskvars, jobvars, regvars>>

InitScan ==
    /\ NoTask
    /\ Idle

NextScan ==
    \E p \in Clients :
        \/ \E fs \in RecordLists : job_call(p, fs)
        \/ acquire(p)
        \/ release(p)

SpecScan == InitScan /\ [][NextScan]_vars

(***************************************************************************)
(* run_job: the job worker (cli/parsers/job_runner.py).  The logger calls  *)
(* are left out.  Popen, the process runner, is not among the sources: a   *)
(* process is started by run_async(), ends by itself with a status, and    *)
(* join() waits for its end.                                               *)
(***************************************************************************)
\* proc.is_alive()
Popen_is_alive(w) == w.proc = "alive"

\* proc.join() returns when the process has ended
Popen_join(w) == w.proc = "ended"

\* proc.status()
Popen_status(w) == w.result

Outputs(w) == 1..w.outs

\* the worker is launched on a materialized job with n expected outputs
start(n) ==
    /\ wk.pc = "off"
    /\ wk' = [wk EXCEPT !.pc = "reset", !.born = now, !.outs = n]
    /\ UNCHANGED <<now, rec, lock, cl, obs>>
    /\ UNCHANGED <<taskvars, regvars, scanvars>>

\* job.reset()
w_reset ==
    /\ wk.pc = "reset"
    /\ rec' = Job_reset(rec, now)
    /\ wk' = [wk EXCEPT !.pc = "pending"]
    /\ UNCHANGED <<now, lock, cl, obs>>
    /\ UNCHANGED <<taskvars, regvars, scanvars>>

\* job.status = State.PENDING
w_pending ==
    /\ wk.pc = "pending"
    /\ rec' = Job_write(State.PENDING, wk.born)
    /\ wk' = [wk EXCEPT !.pc = "staging"]
    /\ UNCHANGED <<now, lock, cl, obs>>
    /\ UNCHANGED <<taskvars, regvars, scanvars>>

\* lines 32-83, before the try: the work area, the links to the image and
\* to the input file, the entrypoint script; an exception ends the worker
w_stage(ok) ==
    /\ wk.pc = "staging"
    /\ wk' = IF ok THEN [wk EXCEPT !.pc = "popen"]
             ELSE [wk EXCEPT !.pc = "died", !.raised = "staging"]
    /\ UNCHANGED <<now, rec, lock, cl, obs>>
    /\ UNCHANGED <<taskvars, regvars, scanvars>>

\* inside the try: Popen(command), proc.run_async(); an exception goes to
\* the except clause, which writes failed and exits
w_popen(ok) ==
    /\ wk.pc = "popen"
    /\ IF ok
       THEN /\ wk' = [wk EXCEPT !.pc = "running", !.proc = "alive"]
            /\ UNCHANGED rec
       ELSE /\ wk' = [wk EXCEPT !.pc = "exited", !.raised = "running"]
            /\ rec' = Job_write(State.FAILED, wk.born)
    /\ UNCHANGED <<now, lock, cl, obs>>
    /\ UNCHANGED <<taskvars, regvars, scanvars>>

\* job.status = State.RUNNING
w_running ==
    /\ wk.pc = "running"
    /\ rec' = Job_write(State.RUNNING, wk.born)
    /\ wk' = [wk EXCEPT !.pc = "join", !.beat = now]
    /\ UNCHANGED <<now, lock, cl, obs>>
    /\ UNCHANGED <<taskvars, regvars, scanvars>>

\* the process ends, leaving some of the expected output files
proc_end(result, present) ==
    /\ wk.proc = "alive"
    /\ wk' = [wk EXCEPT !.proc = "ended", !.result = result, !.present = present]
    /\ UNCHANGED <<now, rec, lock, cl, obs>>
    /\ UNCHANGED <<taskvars, regvars, scanvars>>

\* time passes while the worker waits in proc.join()
wait(d) ==
    /\ wk.pc = "join"
    /\ ~Popen_join(wk)
    /\ Tick(d)

\* proc.join()
w_join ==
    /\ wk.pc = "join"
    /\ Popen_join(wk)
    /\ wk' = [wk EXCEPT !.pc = "loop"]
    /\ UNCHANGED <<now, rec, lock, cl, obs>>
    /\ UNCHANGED <<taskvars, regvars, scanvars>>

\* while proc.is_alive(): sleep(10); job.ping()
w_loop ==
    /\ wk.pc = "loop"
    /\ IF Popen_is_alive(wk)
       THEN /\ now + Heartbeat <= MaxTime
            /\ now' = now + Heartbeat
            /\ rec' = Job_ping(rec, now')
            /\ wk' = [wk EXCEPT !.beat = now']
       ELSE /\ wk' = [wk EXCEPT !.pc = "check"]
            /\ UNCHANGED <<now, rec>>
    /\ UNCHANGED <<lock, cl, obs>>
    /\ UNCHANGED <<taskvars, regvars, scanvars>>

\* if proc.status() != "completed": failed, exit
w_check ==
    /\ wk.pc = "check"
    /\ IF Popen_status(wk) # "completed"
       THEN /\ rec' = Job_write(State.FAILED, wk.born)
            /\ wk' = [wk EXCEPT !.pc = "exited"]
       ELSE /\ wk' = [wk EXCEPT !.pc = "upload", !.k = 1]
            /\ UNCHANGED rec
    /\ UNCHANGED <<now, lock, cl, obs>>
    /\ UNCHANGED <<taskvars, regvars, scanvars>>

\* the upload loop, after the try: an output that is there is moved to the
\* storage and linked back (an exception ends the worker); an output that
\* is not there writes failed and exits
w_upload(ok) ==
    /\ wk.pc = "upload"
    /\ wk.k \in Outputs(wk)
    /\ IF wk.k \in wk.present
       THEN /\ wk' = IF ok THEN [wk EXCEPT !.k = @ + 1]
                     ELSE [wk EXCEPT !.pc = "died", !.raised = "uploading"]
            /\ UNCHANGED rec
       ELSE /\ rec' = Job_write(State.FAILED, wk.born)
            /\ wk' = [wk EXCEPT !.pc = "exited"]
    /\ UNCHANGED <<now, lock, cl, obs>>
    /\ UNCHANGED <<taskvars, regvars, scanvars>>

\* job.ping(); job.status = State.COMPLETED; sys.exit(0)
w_complete ==
    /\ wk.pc = "upload"
    /\ wk.k \notin Outputs(wk)
    /\ rec' = Job_write(State.COMPLETED, wk.born)
    /\ wk' = [wk EXCEPT !.pc = "exited", !.beat = now]
    /\ UNCHANGED <<now, lock, cl, obs>>
    /\ UNCHANGED <<taskvars, regvars, scanvars>>

\* the job has been materialized at some time before the worker starts
InitJob ==
    /\ NoTask
    /\ Unlocked
    /\ now \in {0, Heartbeat}
    /\ rec = Job_write(State.ASSIGNED, 0)
    /\ lock = "free"
    /\ cl = [p \in Clients |-> NoCall]
    /\ wk = NotStarted
    /\ obs = NoOp

NextJob ==
    \/ \E n \in 0..MaxOutputs : start(n)
    \/ w_reset
    \/ w_pending
    \/ \E ok \in BOOLEAN : w_stage(ok)
    \/ \E ok \in BOOLEAN : w_popen(ok)
    \/ w_running
    \/ \E r \in {"completed", "failed"}, present \in SUBSET Outputs(wk) :
          proc_end(r, present)
    \/ \E d \in Durations : wait(d)
    \/ w_join
    \/ w_loop
    \/ w_check
    \/ \E ok \in BOOLEAN : w_upload(ok)
    \/ w_complete

SpecJob == InitJob /\ [][NextJob]_vars

(***************************************************************************)
(* Building a graph: tasks constructed one after the other                 *)
(***************************************************************************)
InitCtx ==
    /\ next = NextOf({})
    /\ inputs = [t \in Tasks |-> <<>>]
    /\ taskStatus = [t \in Tasks |-> "assigned"]
    /\ initQ = [t \in Tasks |-> 0]
    /\ ledger = [t \in Tasks |-> <<>>]
    /\ jobs = [t \in Tasks |-> <<>>]
    /\ closeQ = {}
    /\ arrays = [t \in Tasks |-> <<>>]
    /\ fin = NoRun
    /\ ini = NoInit
    /\ mat = NoPass
    /\ passes = [t \in Tasks |-> Never]
    /\ Idle
    /\ ctx = NoContext
    /\ made = NoneMade

NextCtx ==
    \E name \in {"A", "B"}, command \in Commands, input \in ctx.datasets,
       outputs \in SUBSET Keys, secondary_data \in SUBSET Keys, sdata \in ctx.datasets :
        Task_init(name, command, input, outputs, secondary_data, sdata)

SpecCtx == InitCtx /\ [][NextCtx]_vars

(***************************************************************************)
(* One task, its job array of one job, and its closing script, which the   *)
(* scheduler holds back with "afterok" on the array (task_runner.py 36-45) *)
(***************************************************************************)
\* the exit code of a worker that has ended: sys.exit(0), or the exit of
\* the interpreter after an exception that nothing caught
ExitCode(w) == IF w.pc = "exited" THEN 0 ELSE 1

\* afterok:<id>: every job of the array has ended with exit code 0
AfterOk(w) == w.pc \in {"exited", "died"} /\ ExitCode(w) = 0

\* run_init of task A has set the task to running, submitted the array of
\* its one job (status file rec, worker wk) and queued the closing script
InitChain ==
    /\ next = NextOf({})
    /\ inputs = [t \in Tasks |-> <<>>]
    /\ taskStatus = [t \in Tasks |-> IF t = "A" THEN State.RUNNING ELSE "assigned"]
    /\ initQ = [t \in Tasks |-> 0]
    /\ ledger = [t \in Tasks |-> <<>>]
    /\ jobs = [t \in Tasks |-> <<>>]
    /\ closeQ = {"A"}
    /\ arrays = [t \in Tasks |-> IF t = "A" THEN <<<<JInt(0)>>>> ELSE <<>>]
    /\ fin = NoRun
    /\ ini = [task |-> "A", before |-> "assigned", skipped |-> FALSE,
              raised |-> "none", submitted |-> TRUE]
    /\ mat = NoPass
    /\ passes = [t \in Tasks |-> Never]
    /\ Registered
    /\ Unlocked
    /\ now \in {0, Heartbeat}
    /\ rec = Job_write(State.ASSIGNED, 0)
    /\ lock = "free"
    /\ cl = [p \in Clients |-> NoCall]
    /\ wk = NotStarted
    /\ obs = NoOp

\* the scheduler runs the closing script of task A, "maestro run next":
\* the task has the one job and no downstream task
chain_close ==
    LET d == Decide(<<Job_status(rec)>>)
    IN  /\ "A" \in closeQ
        /\ AfterOk(wk)
        /\ closeQ' = closeQ \ {"A"}
        /\ taskStatus' = IF d.raised = "none"
                          THEN Task_setStatus(taskStatus, "A", d.status)
                          ELSE taskStatus
        /\ fin' = [task |-> "A", status |-> d.status, raised |-> d.raised,
                   writes |-> <<>>, inits |-> <<>>]
        /\ UNCHANGED <<next, inputs, ledger, jobs, initQ, arrays, ini, mat, passes>>
        /\ UNCHANGED <<jobvars, regvars, scanvars>>

NextChain == NextJob \/ chain_close

SpecChain == InitChain /\ [][NextChain]_vars

\* the scheduler and the processes go on as long as they can
FairChain == SpecChain /\ WF_vars(NextChain)

(***************************************************************************)
(* Properties of the pipeline and of materialization                       *)
(***************************************************************************)
Started(t) == arrays[t] # <<>>

Passed(t) == taskStatus[t] \in {"completed", "finalized"}

C10_SecondPassIdle ==
    (mat.task # "none" /\ mat.repeat) =>
        /\ mat.saved = <<>>
        /\ ledger[mat.task] = mat.ledgerBefore

\* C11: a pass run after k new input files appeared saves exactly k jobs,
\* whose ids are the numbers from the ledger length upwards, each one more
\* than the one before, and none of them the id of a job that existed.
C11_NewJobsFreshIds ==
    mat.task # "none" =>
        /\ Len(mat.saved) = Len(mat.newFiles)
        /\ \A i \in 1..Len(mat.saved) :
              /\ mat.saved[i] = JInt(Len(mat.ledgerBefore) + i - 1)
              /\ \A j \in 1..Len(mat.jobsBefore) :
                    mat.jobsBefore[j].job_id # mat.saved[i]

\* C12: every job that existed before a pass has the same definition, the
\* same job id and the same status record after the pass.
C12_OldJobsUntouched ==
    mat.task # "none" =>
        \A i \in 1..Len(mat.jobsBefore) :
            /\ i <= Len(mat.jobsAfter)
            /\ mat.jobsAfter[i] = mat.jobsBefore[i]

C14_PingRefreshesLastTime ==
    (obs.op = "ping" /\ obs.before.exists) =>
        /\ obs.after.last_time = obs.at
        /\ obs.after.status = obs.before.status
        /\ obs.after.start_time = obs.before.start_time

\* C15: is_alive() of a record that has been pinged answers true exactly
\* when less than the timeout has passed since its latest ping.
C15_AliveWithinTimeout ==
    (obs.op = "is_alive" /\ obs.pinged >= 0) =>
        (obs.result <=> obs.at - obs.pinged < Timeout)

Terminal == {State.COMPLETED, State.FAILED}

Ended == wk.pc \in {"exited", "died"}

\* C16: while the process is alive and running has been written, the
\* latest ping (or the write of running) is no more than the heartbeat
\* period old.
C16_PingEveryHeartbeat ==
    (wk.proc = "alive" /\ wk.beat >= 0) => now - wk.beat <= Heartbeat

\* C18: a worker that has ended has left neither pending nor running in
\* the status record, and failed if anything went wrong on its way.
C18_FailureEndsFailed ==
    Ended =>
        /\ rec.status \notin {State.PENDING, State.RUNNING}
        /\ wk.raised # "none" => rec.status = State.FAILED

\* C19: a worker that has ended has left completed only if the process
\* ended completed with every expected output there, and has left failed
\* if the process ended with an expected output missing.
C19_CompletedNeedsOutputs ==
    Ended =>
        /\ rec.status = State.COMPLETED =>
              (wk.result = "completed" /\ wk.present = Outputs(wk))
        /\ (wk.proc = "ended" /\ wk.present # Outputs(wk)) =>
              rec.status = State.FAILED

(***************************************************************************)
(* Properties of task construction                                         *)
(***************************************************************************)
\* the command of the last construction lacked %IN or the placeholder of
\* one of its output or secondary-data keys
LacksPlaceholder ==
    /\ made.name # "none"
    /\ made.lacking # {}

RegistryUnchanged ==
    /\ ctx.tasks = made.tasks
    /\ ctx.ids = made.ids
    /\ ctx.datasets = made.datasets
    /\ next = made.next

\* C20 (as claimed): a construction whose command lacks a placeholder
\* fails with InvalidCommandTemplate and leaves the registry as it was.
C20_InvalidCommandTemplate ==
    LacksPlaceholder =>
        /\ made.raised = "InvalidCommandTemplate"
        /\ RegistryUnchanged

\* C20 (amended): a construction whose command lacks a placeholder fails
\* with ValueError and leaves the registry as it was: no task registered,
\* no task id taken, no edge added.
C20_ValueError ==
    LacksPlaceholder =>
        /\ made.raised = "ValueError"
        /\ RegistryUnchanged

\* a command that has %IN and lacks the placeholder of a secondary-data
\* key is refused while a task is registered already
C20_RefusedSecondTask ==
    /\ made.lacking = Keys
    /\ made.secondary_data # {}
    /\ made.raised = "ValueError"
    /\ Len(ctx.tasks) = 1
    /\ made.name \notin Range(ctx.tasks)

\* C21: a construction under the name of a registered task fails with
\* TaskExistsError and leaves the registry, the task ids and the edges as
\* they were.
C21_TaskExistsError ==
    (made.name \in Range(made.tasks) /\ made.lacking = {}) =>
        /\ made.raised = "TaskExistsError"
        /\ RegistryUnchanged

\* C22: no task is twice in the next list of a task, and (the prev lists
\* being filled by the same statements) no task twice in a prev list.
C22_NoDuplicateEdges ==
    \A t \in DOMAIN next : \A u \in Range(next[t]) : Count(next[t], u) = 1

\* the task_id of a registered task
TaskId(name) ==
    ctx.ids[CHOOSE i \in 1..Len(ctx.tasks) : ctx.tasks[i] = name]

C25_IdsAreInsertionPositions ==
    /\ Len(ctx.ids) = Len(ctx.tasks)
    /\ \A i \in 1..Len(ctx.ids) : ctx.ids[i] = i - 1
    /\ \A i, j \in 1..Len(ctx.ids) : ctx.ids[i] = ctx.ids[j] => i = j

\* two tasks are registered, and the last construction was rejected for
\* its name: the ids are still 0 and 1
C25_RejectedAfterTwo ==
    /\ made.raised = "Exception"
    /\ Len(ctx.tasks) = 2
    /\ ctx.ids = <<0, 1>>

\* C24: when a finalization finds its task failed, the traversal of the
\* downstream tasks makes finitely many visits, all of them to downstream
\* tasks, and returns: the handler does not end in an exception.
C24_TraversalReturns ==
    (Finalized /\ fin.status = "failed") =>
        /\ fin.raised = "none"
        /\ Range(fin.writes) \subseteq Downstream(fin.task)
        /\ Len(fin.writes) < 2 ^ Cardinality(Tasks)

\* the file names for which task t has a job
JobFileNames(t) == {basename(jobs[t][i].input_file) : i \in 1..Len(jobs[t])}

\* C26: once a pass of a task has run, whatever passes and new files came
\* after it, the ledger lists exactly the file names for which a job
\* exists, each once, and no input file has more than one job.
C26_LedgerListsJobs ==
    \A t \in Tasks :
        passes[t].ran =>
            /\ Range(ledger[t]) = JobFileNames(t)
            /\ \A f \in Range(ledger[t]) : Count(ledger[t], f) = 1
            /\ \A i, j \in 1..Len(jobs[t]) :
                  jobs[t][i].input_file = jobs[t][j].input_file => i = j

\* C27: a process that is about to truncate the status file, or to dump a
\* record into it, holds the lock of the file; this includes the write of
\* the first record, holding assigned, when the job is materialized.
C27_WritesHoldLock ==
    \A p \in Clients : cl[p].pc \in {"open", "dump"} => lock = p

\* C28: no process holds the locks of two status files; a process holds a
\* lock only inside the one with block it is in; and whenever a process
\* waits for a lock, some process can go on, so the processes never block
\* each other for good.
C28_OneLockAtATime ==
    /\ \A p \in Clients :
          /\ Cardinality(Held(p)) <= 1
          /\ Held(p) # {} => (pr[p].pc = "in" /\ Held(p) = {Head(pr[p].todo)})
    /\ (\E p \in Clients : pr[p].pc = "lock") =>
          \E q \in Clients :
              \/ pr[q].pc = "in"
              \/ pr[q].pc = "lock" /\ locks[Head(pr[q].todo)] = "free"

\* a loop over the status files is inside the block of a later file while
\* another process waits for the lock of that file
C28_WaitsForScanner ==
    \E p, q \in Clients :
        /\ pr[p].pc = "in"
        /\ pr[p].done >= 1
        /\ pr[q].pc = "lock"
        /\ Head(pr[q].todo) = Head(pr[p].todo)
        /\ Len(pr[q].todo) >= 2

C30_FinalizationFrame ==
    [][LET t == fin'.task
       IN  /\ \A u \in Tasks \ {t} :
                 taskStatus'[u] # taskStatus[u] =>
                     (fin'.status = "failed" /\ u \in Downstream(t))
           /\ fin'.status = "failed" => taskStatus'[t] = "failed"
           /\ jobs' = jobs]_vars

\* a task with an upstream and a downstream task has been found failed:
\* it is failed, and the upstream task has the status it started with
C30_FailedInTheMiddle ==
    /\ Finalized
    /\ fin.status = "failed"
    /\ taskStatus[fin.task] = "failed"
    /\ next[fin.task] # <<>>
    /\ \E u \in prev(fin.task) : taskStatus[u] = State.RUNNING

\* C32: no reset, state write or ping leaves the status file with a
\* last_time earlier than the one it held before; a state write made after
\* a reset keeps the timestamps the reset stored.
C32_LastTimeNeverDecreases ==
    (obs.op # "none" /\ obs.before.whole /\ obs.after.whole) =>
        /\ obs.after.last_time >= obs.before.last_time
        /\ obs.op = "write" => obs.after.start_time >= obs.before.start_time

(***************************************************************************)
(* Properties of the chain of array and closing script                     *)
(***************************************************************************)
Closed ==
    /\ "A" \notin closeQ
    /\ taskStatus["A"] \in {State.COMPLETED, State.FINALIZED, State.FAILED}

====
